---------------------------- MODULE Spec2Model ----------------------------
(***************************************************************************)
(* Model of src/src/vite-fix-naiveui-icon.ts: the version gate, the path   *)
(* filters, the virtual-module resolver and the three transform stages of  *)
(* the plugin array returned by ViteFixNaiveuiIcon.                        *)
(*                                                                         *)
(* Text is a sequence of one-character strings.  Indices held in the state *)
(* are the 0-based indices of the JavaScript source (String.prototype      *)
(* .indexOf, RegExp match .index, MagicString offsets); At(s, i) reads the *)
(* character at JavaScript index i.                                        *)
(***************************************************************************)
EXTENDS Integers, Sequences, FiniteSets, TLC

VARIABLES
    \* ---- session state (closure variables of ViteFixNaiveuiIcon) ----
    pc,                     \* "created" | "configured" | "ready"
    pkg,                    \* what naive-ui/package.json resolution finds
    isBuild,
    skipFix,
    fixReplaceableFilter,   \* include patterns handed to createFilter
    fixExportDefaultFilter,
    resolved,               \* last result of resolveId
    loaded,                 \* last result of load
    \* ---- one file travelling through the plugin pipeline ----
    stage,                  \* "idle" | name of the plugin about to run | "done"
    id,
    input,                  \* the text the host handed to the first stage
    code,                   \* the text handed to the plugin about to run
    emitted,                \* plugins whose transform returned {code, map}
    received,               \* plugin name -> text it was invoked with
    descriptor,             \* transformMap recipe the export-default stage chose
    \* ---- locals of the replaceable transform, one step at a time ----
    rpc,                    \* "idle" | "replace" | "match" | "scan" | "setup" | "emit"
    magicString,
    startIdx,               \* replaceableMatch.index, -1 when the regex found nothing
    endIdx,
    braceCount,
    funcEndIdx,
    setupStartIdx,          \* -1 when nothing was appended
    raised,                 \* an exception left the transform
    \* ---- one call of compareVersion ----
    cvpc,                   \* "call" | "returned"
    cvVersion,
    cvTarget,
    cvResult

vars == <<pc, pkg, isBuild, skipFix, fixReplaceableFilter, fixExportDefaultFilter,
          resolved, loaded, stage, id, input, code, emitted, received, descriptor,
          rpc, magicString, startIdx, endIdx, braceCount, funcEndIdx,
          setupStartIdx, raised, cvpc, cvVersion, cvTarget, cvResult>>

sessionVars == <<pc, pkg, isBuild, skipFix, fixReplaceableFilter,
                 fixExportDefaultFilter>>
hostVars == <<resolved, loaded>>
fileVars == <<stage, id, input, code, emitted, received, descriptor>>
replaceableVars == <<rpc, magicString, startIdx, endIdx, braceCount, funcEndIdx,
                     setupStartIdx, raised>>
cvVars == <<cvpc, cvVersion, cvTarget, cvResult>>

-----------------------------------------------------------------------------
(* Bounds of the model.                                                    *)

\* Longest version tuple drawn for compareVersion.
MaxComponents == 4
\* Most fragments concatenated into one input text of the replaceable stage.
MaxFrags == 4

-----------------------------------------------------------------------------
(* Strings as character sequences.                                         *)

At(s, i) == s[i + 1]

\* s.slice(from, to) for 0 <= from, to <= s.length
Slice(s, from, to) == IF to <= from THEN <<>> ELSE SubSeq(s, from + 1, to)

\* s.startsWith(lit, i)
MatchLitAt(s, i, lit) ==
    /\ i >= 0
    /\ i + Len(lit) <= Len(s)
    /\ \A k \in 1..Len(lit) : s[i + k] = lit[k]

\* the least index of a set of indices, -1 for the empty set
LeastOr(S) == IF S = {} THEN -1 ELSE CHOOSE x \in S : \A y \in S : x <= y

\* s.indexOf(lit, i): the least index >= i where lit occurs, -1 when none
IndexOfFrom(s, lit, i) ==
    LeastOr({j \in i..(Len(s) - Len(lit)) : MatchLitAt(s, j, lit)})

IndexOf(s, lit) == IndexOfFrom(s, lit, 0)

\* s.includes(lit), and RegExp.test for a pattern that is one escaped literal
Includes(s, lit) == IndexOf(s, lit) # -1

\* the characters \s matches, among those the model's texts use
WhiteSpace == {" ", "\t", "\n"}

RECURSIVE SkipWS(_, _)
\* the index after a greedy \s* started at i
SkipWS(s, i) ==
    IF i < Len(s) /\ At(s, i) \in WhiteSpace THEN SkipWS(s, i + 1) ELSE i

IndexOfChar(s, c, i) == IndexOfFrom(s, <<c>>, i)

RECURSIVE Flatten(_)
Flatten(ss) == IF ss = <<>> THEN <<>> ELSE Head(ss) \o Flatten(Tail(ss))

-----------------------------------------------------------------------------
(* compareVersion (lines 26-38) and the strings it is given.               *)

Digits == <<"0", "1", "2", "3", "4", "5", "6", "7", "8", "9">>

IsDigit(c) == \E d \in 1..10 : Digits[d] = c

DigitVal(c) == (CHOOSE d \in 1..10 : Digits[d] = c) - 1

\* Number() yields NaN for a component that is not a decimal numeral
NaN == -1

RECURSIVE ParseDigits(_, _)
ParseDigits(s, acc) ==
    IF s = <<>> THEN acc ELSE ParseDigits(Tail(s), 10 * acc + DigitVal(Head(s)))

\* Number(s) for s without sign, exponent or radix prefix: "" is 0, a digit
\* string its decimal value, anything else NaN
Number(s) ==
    IF s = <<>> THEN 0
    ELSE IF \A k \in 1..Len(s) : IsDigit(s[k]) THEN ParseDigits(s, 0)
    ELSE NaN

RECURSIVE SplitFrom(_, _, _)
\* s.split('.'): the pieces between the dots, "" giving one empty piece
SplitFrom(s, i, piece) ==
    IF i >= Len(s) THEN <<piece>>
    ELSE IF At(s, i) = "." THEN <<piece>> \o SplitFrom(s, i + 1, <<>>)
    ELSE SplitFrom(s, i + 1, Append(piece, At(s, i)))

Split(s) == SplitFrom(s, 0, <<>>)

\* version.split('.').map(Number)
SplitNumbers(s) == [k \in 1..Len(Split(s)) |-> Number(Split(s)[k])]

\* v[i] || 0 for the 0-based i: undefined, NaN and 0 are falsy
OrZero(v, i) == IF i + 1 > Len(v) \/ v[i + 1] = NaN THEN 0 ELSE v[i + 1]

Max(a, b) == IF a >= b THEN a ELSE b

RECURSIVE CompareFrom(_, _, _)
CompareFrom(v1, v2, i) ==
    IF i < Max(Len(v1), Len(v2))
    THEN LET n1 == OrZero(v1, i)
             n2 == OrZero(v2, i)
         IN  IF n1 > n2 THEN TRUE
             ELSE IF n1 < n2 THEN FALSE
             ELSE CompareFrom(v1, v2, i + 1)
    ELSE TRUE

RECURSIVE CompareFromNoPad(_, _, _)
\* a variant that stops at the shorter tuple and lets the longer one win
CompareFromNoPad(v1, v2, i) ==
    IF i < Len(v1) /\ i < Len(v2)
    THEN IF v1[i + 1] > v2[i + 1] THEN TRUE
         ELSE IF v1[i + 1] < v2[i + 1] THEN FALSE
         ELSE CompareFromNoPad(v1, v2, i + 1)
    ELSE Len(v1) >= Len(v2)

compareVersionNoPad(version, target) ==
    CompareFromNoPad(SplitNumbers(version), SplitNumbers(target), 0)

compareVersion(version, target) ==
    CompareFrom(SplitNumbers(version), SplitNumbers(target), 0)

FIXED_VERSION == <<"2",".","4","0",".","4">>

\* --- the dotted numeric strings compareVersion is tried on ---

RECURSIVE DigitsOf(_)
DigitsOf(n) ==
    IF n < 10 THEN <<Digits[n + 1]>> ELSE Append(DigitsOf(n \div 10), Digits[(n % 10) + 1])

RECURSIVE Dotted(_)
\* the dotted string of a non-empty tuple of naturals: <<2, 40>> is "2.40"
Dotted(t) ==
    IF Len(t) = 1 THEN DigitsOf(t[1])
    ELSE DigitsOf(t[1]) \o <<".">> \o Dotted(Tail(t))

ComponentValues == {0, 2, 10}

Tuples == UNION {[1..n -> ComponentValues] : n \in 1..MaxComponents}

NamedPairs ==
    { <<<<2, 40, 4>>, <<2, 40, 4>>>>, <<<<2, 41, 0>>, <<2, 40, 4>>>>,
      <<<<2, 40, 3>>, <<2, 40, 4>>>>, <<<<2, 40>>, <<2, 40, 0>>>> }

CompareStep ==
    /\ cvpc = "call"
    /\ cvResult' = compareVersion(Dotted(cvVersion), Dotted(cvTarget))
    /\ cvpc' = "returned"
    /\ UNCHANGED <<cvVersion, cvTarget, sessionVars, hostVars, fileVars,
                   replaceableVars>>

-----------------------------------------------------------------------------
(* The version gate: getNaiveUIVersion (lines 43-55), configResolved       *)
(* (lines 71-78).                                                          *)

\* What require.resolve + JSON.parse find under the project root: nothing
\* (resolve throws), a file that does not parse, or a manifest with a version.
Manifest(v) == [found |-> TRUE, parses |-> TRUE, version |-> v]

Packages ==
    { [found |-> FALSE, parses |-> FALSE, version |-> <<>>],
      [found |-> TRUE, parses |-> FALSE, version |-> <<>>],
      Manifest(<<"2",".","4","0",".","4">>), Manifest(<<"2",".","4","1",".","0">>), Manifest(<<"2",".","4","0",".","3">>),
      Manifest(<<"2",".","4","0">>), Manifest(<<"3">>), Manifest(<<"2",".","3","8",".","1","2">>),
      Manifest(<<"2",".","4","0",".","4","a">>), Manifest(<<>>) }

\* string | null
Null == [isNull |-> TRUE, value |-> <<>>]

Str(s) == [isNull |-> FALSE, value |-> s]

getNaiveUIVersion(p) ==
    IF p.found /\ p.parses THEN Str(p.version) ELSE Null

\* `version && ...`: null and the empty string are falsy
Truthy(v) == ~v.isNull /\ v.value # <<>>

SkipDecisionFailClosed(version) ==
    ~Truthy(version) \/ compareVersion(version.value, FIXED_VERSION)

\* the condition of the if at line 74
SkipDecision(version) ==
    Truthy(version) /\ compareVersion(version.value, FIXED_VERSION)

ConfigResolved ==
    /\ pc = "configured"
    /\ LET version == getNaiveUIVersion(pkg)
       IN  skipFix' = IF SkipDecision(version) THEN TRUE ELSE skipFix
    /\ pc' = "ready"
    /\ UNCHANGED <<pkg, isBuild, fixReplaceableFilter, fixExportDefaultFilter,
                   hostVars, fileVars, replaceableVars, cvVars>>

-----------------------------------------------------------------------------
(* The path filters: config (lines 79-95).  Every pattern handed to        *)
(* createFilter is a regular expression made of escaped literal characters *)
(* only, so it tests true exactly on the ids that contain the literal.     *)

ReplaceablePattern == <<"/","n","a","i","v","e","-","u","i","/","e","s","/","_","i","n","t","e","r","n","a","l",
      "/","i","c","o","n","s","/","r","e","p","l","a","c","e","a","b","l","e">>

CheckboxPattern == <<"/","n","a","i","v","e","-","u","i","/","e","s","/","c","h","e","c","k","b","o","x","/",
      "s","r","c","/","C","h","e","c","k","b","o","x",".","m","j","s">>

BackTopPattern == <<"/","n","a","i","v","e","-","u","i","/","e","s","/","b","a","c","k","-","t","o","p","/",
      "s","r","c","/","B","a","c","k","T","o","p",".","m","j","s">>

RatePattern == <<"/","n","a","i","v","e","-","u","i","/","e","s","/","r","a","t","e","/","s","r","c","/",
      "R","a","t","e",".","m","j","s">>

ResultPattern == <<"/","n","a","i","v","e","-","u","i","/","e","s","/","r","e","s","u","l","t","/","s","r",
      "c","/","R","e","s","u","l","t",".","m","j","s">>

DevPattern == <<"/",".","v","i","t","e","/","d","e","p","s","/","n","a","i","v","e","-","u","i",".","j",
      "s">>

\* createFilter(include): the include patterns, in order
createFilter(include) == include

\* filter(id): some include pattern tests true on the id
FilterMatch(filter, i) == \E k \in 1..Len(filter) : Includes(i, filter[k])

Commands == {"build", "serve"}

\* a list that also holds the icon-internals pattern
BuildExportDefaultPatternsWithIcons ==
    <<ReplaceablePattern, CheckboxPattern, BackTopPattern, RatePattern, ResultPattern>>

\* lines 83-88
BuildExportDefaultPatterns ==
    <<CheckboxPattern, BackTopPattern, RatePattern, ResultPattern>>

Config(command) ==
    /\ pc = "created"
    /\ IF command = "build"
       THEN /\ isBuild' = TRUE
            /\ fixReplaceableFilter' = createFilter(<<ReplaceablePattern>>)
            /\ fixExportDefaultFilter' = createFilter(BuildExportDefaultPatterns)
       ELSE /\ isBuild' = FALSE
            /\ fixReplaceableFilter' = createFilter(<<DevPattern>>)
            /\ fixExportDefaultFilter' = createFilter(<<DevPattern>>)
    /\ pc' = "configured"
    /\ UNCHANGED <<pkg, skipFix, hostVars, fileVars, replaceableVars, cvVars>>

-----------------------------------------------------------------------------
(* The virtual-module resolver: getVirtualPath (lines 11-20), resolveId    *)
(* (lines 96-101), load (lines 102-107).                                   *)

\* the directory of the running plugin file
ModuleDir == <<"/","p","/","d","i","s","t">>

DistSuffixes == {<<"/","d","i","s","t">>, <<"\\","d","i","s","t">>}

\* _dirname_.replace(/[/\\]dist$/, '/src/virtual')
getVirtualPath(dir) ==
    IF \E x \in DistSuffixes : MatchLitAt(dir, Len(dir) - Len(x), x)
    THEN Slice(dir, 0, Len(dir) - 5) \o <<"/","s","r","c","/","v","i","r","t","u","a","l">>
    ELSE dir

VirtualPath == getVirtualPath(ModuleDir)

VirtualPrefix == <<"v","i","r","t","u","a","l",":","f","i","x","N","a","i","v","e","u","i","I","c","o","n",
      "-","p","a","t","h",":">>

\* the files existsSync finds, with what readFileSync returns for each
HelperFile == VirtualPath \o <<"/","d","e","e","p","C","l","o","n","e","V","n","o","d","e",".","j","s">>

HelperText == <<"e","x","p","o","r","t"," ","d","e","f","a","u","l","t"," ","c">>

HookIds ==
    { VirtualPrefix \o <<"d","e","e","p","C","l","o","n","e","V","n","o","d","e",".","j","s">>, HelperFile,
      VirtualPath \o <<"/","m","i","s","s","i","n","g",".","j","s">>, <<"v","u","e">> }

HostIdle == pc = "ready" /\ rpc = "idle"

ResolveId(i) ==
    /\ HostIdle
    /\ resolved' = IF MatchLitAt(i, 0, VirtualPrefix)
                   THEN Str(VirtualPath \o <<"/">> \o Slice(i, Len(VirtualPrefix), Len(i)))
                   ELSE Null
    /\ UNCHANGED <<sessionVars, loaded, fileVars, replaceableVars, cvVars>>

Load(i) ==
    /\ HostIdle
    /\ loaded' = IF MatchLitAt(i, 0, VirtualPath) /\ i = HelperFile
                 THEN Str(HelperText)
                 ELSE Null
    /\ UNCHANGED <<sessionVars, resolved, fileVars, replaceableVars, cvVars>>

-----------------------------------------------------------------------------
(* MagicString, as far as the plugin uses it: prepend, replace with a      *)
(* string pattern, appendLeft and toString over an untouched original.     *)

NewMagicString(text) ==
    [original |-> text, intro |-> <<>>, overwrites |-> <<>>, inserts |-> <<>>]

MSPrepend(ms, content) == [ms EXCEPT !.intro = content \o @]

\* replace(string, replacement): overwrite the first occurrence, if any
MSReplace(ms, pattern, replacement) ==
    LET at == IndexOf(ms.original, pattern)
    IN  IF at # -1 /\ pattern # replacement
        THEN [ms EXCEPT !.overwrites =
                  Append(@, [start |-> at, end |-> at + Len(pattern),
                             content |-> replacement])]
        ELSE ms

\* appendLeft splits the chunk holding the index, which throws inside a
\* chunk that was overwritten
MSCanSplit(ms, index) ==
    \A k \in 1..Len(ms.overwrites) :
        ~(ms.overwrites[k].start < index /\ index < ms.overwrites[k].end)

MSAppendLeft(ms, index, content) ==
    [ms EXCEPT !.inserts = Append(@, [index |-> index, content |-> content])]

RECURSIVE InsertsAt(_, _, _)
\* what was appended at an index, in the order of the calls
InsertsAt(ms, index, k) ==
    IF k > Len(ms.inserts) THEN <<>>
    ELSE (IF ms.inserts[k].index = index THEN ms.inserts[k].content ELSE <<>>)
         \o InsertsAt(ms, index, k + 1)

\* the indices of the original where a chunk boundary carries an edit
EditIndices(ms) ==
    {ms.overwrites[k].start : k \in 1..Len(ms.overwrites)}
        \cup {ms.inserts[k].index : k \in 1..Len(ms.inserts)}

RECURSIVE Render(_, _)
\* the text from index i of the original on, what was appended at i left out
Render(ms, i) ==
    IF \E k \in 1..Len(ms.overwrites) : ms.overwrites[k].start = i
    THEN LET k == CHOOSE k \in 1..Len(ms.overwrites) : ms.overwrites[k].start = i
             e == ms.overwrites[k].end
         IN  ms.overwrites[k].content \o InsertsAt(ms, e, 1) \o Render(ms, e)
    ELSE LET e == LeastOr({j \in EditIndices(ms) : j > i})
         IN  IF e = -1 THEN Slice(ms.original, i, Len(ms.original))
             ELSE Slice(ms.original, i, e) \o InsertsAt(ms, e, 1) \o Render(ms, e)

MSToString(ms) == ms.intro \o InsertsAt(ms, 0, 1) \o Render(ms, 0)

-----------------------------------------------------------------------------
(* The plugin array (lines 66-206) and the order the host runs it in:      *)
(* plugins with enforce 'pre', then those without, then those with 'post', *)
(* each group in array order.                                              *)

Plugins ==
    << [name |-> "pre", enforce |-> "pre"],
       [name |-> "replaceable", enforce |-> "post"],
       [name |-> "exportDefault", enforce |-> "post"] >>

EnforcedPre(p) == p.enforce = "pre"

EnforcedNone(p) == p.enforce = "none"

EnforcedPost(p) == p.enforce = "post"

PipelineOrder ==
    SelectSeq(Plugins, EnforcedPre) \o SelectSeq(Plugins, EnforcedNone)
        \o SelectSeq(Plugins, EnforcedPost)

PluginNames == {Plugins[k].name : k \in 1..Len(Plugins)}

Position(name) == CHOOSE k \in 1..Len(PipelineOrder) : PipelineOrder[k].name = name

\* the plugin the host runs after `name`, "done" after the last
After(name) ==
    IF Position(name) = Len(PipelineOrder) THEN "done"
    ELSE PipelineOrder[Position(name) + 1].name

NoLocals ==
    /\ rpc' = "idle"
    /\ magicString' = NewMagicString(<<>>)
    /\ startIdx' = -1
    /\ endIdx' = 0
    /\ braceCount' = 0
    /\ funcEndIdx' = 0
    /\ setupStartIdx' = -1
    /\ raised' = FALSE

\* the host starts the transform pipeline on one module
BeginFile(i, text) ==
    /\ pc = "ready"
    /\ stage = "idle"
    /\ stage' = PipelineOrder[1].name
    /\ id' = i
    /\ input' = text
    /\ code' = text
    /\ emitted' = {}
    /\ received' = [n \in {} |-> <<>>]
    /\ descriptor' = "none"
    /\ NoLocals
    /\ UNCHANGED <<sessionVars, hostVars, cvVars>>

NextFile ==
    /\ stage = "done"
    /\ stage' = "idle"
    /\ UNCHANGED <<id, input, code, emitted, received, descriptor, sessionVars,
                   hostVars, replaceableVars, cvVars>>

Receive(name) == received' = [n \in (DOMAIN received) \cup {name} |->
                                  IF n = name THEN code ELSE received[n]]

-----------------------------------------------------------------------------
(* vite-fix-naiveui-icon:pre transform (lines 108-119).                    *)

ImportLine ==
    <<"i","m","p","o","r","t"," ","f","i","x","N","a","i","v","e","u","i","I","c","o","n","C",
      "l","o","n","e","V","n","o","d","e"," ","f","r","o","m"," ","'","v","i","r","t","u","a",
      "l",":","f","i","x","N","a","i","v","e","u","i","I","c","o","n","-","p","a","t","h",":",
      "d","e","e","p","C","l","o","n","e","V","n","o","d","e",".","j","s","'",";","\n">>

PreFilterReplaceableOnly(i) == FilterMatch(fixReplaceableFilter, i)

\* negation of the early return at lines 111-112
PreFilterMatch(i) ==
    FilterMatch(fixReplaceableFilter, i) \/ FilterMatch(fixExportDefaultFilter, i)

PreTransformNoSkipCheck ==
    /\ stage = "pre"
    /\ Receive("pre")
    /\ IF ~PreFilterMatch(id)
       THEN UNCHANGED <<code, emitted>>
       ELSE /\ code' = MSToString(MSPrepend(NewMagicString(code), ImportLine))
            /\ emitted' = emitted \cup {"pre"}
    /\ stage' = After("pre")
    /\ UNCHANGED <<id, input, descriptor, sessionVars, hostVars, replaceableVars,
                   cvVars>>

PreTransform ==
    /\ stage = "pre"
    /\ Receive("pre")
    /\ IF skipFix \/ ~PreFilterMatch(id)
       THEN UNCHANGED <<code, emitted>>
       ELSE /\ code' = MSToString(MSPrepend(NewMagicString(code), ImportLine))
            /\ emitted' = emitted \cup {"pre"}
    /\ stage' = After("pre")
    /\ UNCHANGED <<id, input, descriptor, sessionVars, hostVars, replaceableVars,
                   cvVars>>

-----------------------------------------------------------------------------
(* vite-fix-naiveui-icon-export-default transform (lines 175-204).         *)

\* the switch (true) at lines 185-198: the first case whose substring the id
\* includes, no recipe when none does
BuildRecipe(i) ==
    IF Includes(i, <<"c","h","e","c","k","b","o","x">>) THEN "checkbox"
    ELSE IF Includes(i, <<"b","a","c","k","-","t","o","p">>) THEN "backTop"
    ELSE IF Includes(i, <<"r","a","t","e">>) THEN "rate"
    ELSE IF Includes(i, <<"r","e","s","u","l","t">>) THEN "result"
    ELSE "none"

SelectRecipe(i) == IF ~isBuild THEN "dev" ELSE BuildRecipe(i)

\* The recipes (transformDev, transformMap.*) live in ./transformMap, outside
\* the source at hand: which one is called is recorded, its edits are not
\* modelled and the text is rendered as it came.
ApplyRecipe(ms, recipe) == ms

ExportDefaultTransform ==
    /\ stage = "exportDefault"
    /\ Receive("exportDefault")
    /\ IF skipFix \/ ~FilterMatch(fixExportDefaultFilter, id)
       THEN UNCHANGED <<code, emitted, descriptor>>
       ELSE /\ descriptor' = SelectRecipe(id)
            /\ code' = MSToString(ApplyRecipe(NewMagicString(code), SelectRecipe(id)))
            /\ emitted' = emitted \cup {"exportDefault"}
    /\ stage' = After("exportDefault")
    /\ UNCHANGED <<id, input, sessionVars, hostVars, replaceableVars, cvVars>>

-----------------------------------------------------------------------------
(* vite-fix-naiveui-icon-replaceable transform (lines 126-168).            *)

SignatureLiteral == <<"f","u","n","c","t","i","o","n"," ","r","e","p","l","a","c","e","a","b","l","e","(","n",
      "a","m","e",","," ","i","c","o","n",")">>

RenamedLiteral == <<"f","u","n","c","t","i","o","n"," ","r","e","p","l","a","c","e","a","b","l","e","(","n",
      "a","m","e",","," ","_","i","c","o","n","_",")">>

Template == <<"\n"," "," ","c","o","n","s","t"," ","i","c","o","n"," ","="," ","f","i","x","N","a","i",
      "v","e","u","i","I","c","o","n","C","l","o","n","e","V","n","o","d","e","(","_","i","c",
      "o","n","_",")",";">>

FunctionReplaceable == <<"f","u","n","c","t","i","o","n"," ","r","e","p","l","a","c","e","a","b","l","e">>

\* /function replaceable\s*\(([^,]+),\s*icon\)\s*\{/ tried at index i: the
\* index after the match, -1 when it does not match there.  Each \s* is
\* followed by a character that is no white space and [^,]+ by a comma, so
\* the greedy choice is the only one that can succeed.
SignatureEndAt(s, i) ==
    IF ~MatchLitAt(s, i, FunctionReplaceable) THEN -1
    ELSE LET open == SkipWS(s, i + Len(FunctionReplaceable))
         IN  IF ~MatchLitAt(s, open, <<"(">>) THEN -1
             ELSE LET comma == IndexOfChar(s, ",", open + 1)
                  IN  IF comma = -1 \/ comma = open + 1 THEN -1
                      ELSE LET param == SkipWS(s, comma + 1)
                           IN  IF ~MatchLitAt(s, param, <<"i","c","o","n",")">>) THEN -1
                               ELSE LET brace == SkipWS(s, param + 5)
                                    IN  IF MatchLitAt(s, brace, <<"{">>)
                                        THEN brace + 1 ELSE -1

\* /setup\s*\(\)\s*\{/ tried at index i, likewise
SetupEndAt(s, i) ==
    IF ~MatchLitAt(s, i, <<"s","e","t","u","p">>) THEN -1
    ELSE LET parens == SkipWS(s, i + 5)
         IN  IF ~MatchLitAt(s, parens, <<"(",")">>) THEN -1
             ELSE LET brace == SkipWS(s, parens + 2)
                  IN  IF MatchLitAt(s, brace, <<"{">>) THEN brace + 1 ELSE -1

NoMatch == [index |-> -1, length |-> 0]

\* regex.exec(s): the leftmost match
SignatureExec(s) ==
    LET at == LeastOr({i \in 0..(Len(s) - 1) : SignatureEndAt(s, i) # -1})
    IN  IF at = -1 THEN NoMatch
        ELSE [index |-> at, length |-> SignatureEndAt(s, at) - at]

SetupExec(s) ==
    LET at == LeastOr({i \in 0..(Len(s) - 1) : SetupEndAt(s, i) # -1})
    IN  IF at = -1 THEN NoMatch
        ELSE [index |-> at, length |-> SetupEndAt(s, at) - at]

\* lines 127-131: the early returns, then new MagicString(code)
ReplaceableTransform ==
    /\ stage = "replaceable"
    /\ rpc = "idle"
    /\ Receive("replaceable")
    /\ IF skipFix \/ ~FilterMatch(fixReplaceableFilter, id)
       THEN /\ stage' = After("replaceable")
            /\ UNCHANGED replaceableVars
       ELSE /\ rpc' = "replace"
            /\ magicString' = NewMagicString(code)
            /\ UNCHANGED <<stage, startIdx, endIdx, braceCount, funcEndIdx,
                           setupStartIdx, raised>>
    /\ UNCHANGED <<id, input, code, emitted, descriptor, sessionVars, hostVars,
                   cvVars>>

\* lines 132-135
ReplaceLiteral ==
    /\ rpc = "replace"
    /\ magicString' = MSReplace(magicString, SignatureLiteral, RenamedLiteral)
    /\ rpc' = "match"
    /\ UNCHANGED <<startIdx, endIdx, braceCount, funcEndIdx, setupStartIdx, raised,
                   fileVars, sessionVars, hostVars, cvVars>>

\* lines 137-145
MatchSignature ==
    /\ rpc = "match"
    /\ LET replaceableMatch == SignatureExec(code)
       IN  IF replaceableMatch.index # -1
           THEN /\ startIdx' = replaceableMatch.index
                /\ endIdx' = replaceableMatch.index + replaceableMatch.length
                /\ braceCount' = 1
                /\ funcEndIdx' = replaceableMatch.index + replaceableMatch.length
                /\ rpc' = "scan"
           ELSE /\ rpc' = "emit"
                /\ UNCHANGED <<startIdx, endIdx, braceCount, funcEndIdx>>
    /\ UNCHANGED <<magicString, setupStartIdx, raised, fileVars, sessionVars,
                   hostVars, cvVars>>

\* a scan that does not count the braces opened inside the body
BraceCountAfterFlat(count, char) == IF char = "}" THEN count - 1 ELSE count

\* lines 148-152
BraceCountAfter(count, char) ==
    IF char = "{" THEN count + 1
    ELSE IF char = "}" THEN count - 1
    ELSE count

\* one turn of the while loop at lines 147-154
ScanStep ==
    /\ rpc = "scan"
    /\ braceCount > 0 /\ funcEndIdx < Len(code)
    /\ braceCount' = BraceCountAfter(braceCount, At(code, funcEndIdx))
    /\ funcEndIdx' = funcEndIdx + 1
    /\ UNCHANGED <<rpc, magicString, startIdx, endIdx, setupStartIdx, raised,
                   fileVars, sessionVars, hostVars, cvVars>>

\* setupStartIdx computed without the length of the match
InsertionOffsetAtMatchStart(sliceStart, setupMatch) == sliceStart + setupMatch.index

\* line 159
InsertionOffset(sliceStart, setupMatch) ==
    sliceStart + setupMatch.index + setupMatch.length

\* a slice that runs to the end of the text
ReplaceableCodeToEnd(text, from, to) == Slice(text, from, Len(text))

\* line 156
ReplaceableCode(text, from, to) == Slice(text, from, to)

\* the loop is left; lines 156-162
InsertAfterSetup ==
    /\ rpc = "scan"
    /\ ~(braceCount > 0 /\ funcEndIdx < Len(code))
    /\ LET replaceableCode == ReplaceableCode(code, endIdx, funcEndIdx)
           setupMatch == SetupExec(replaceableCode)
           offset == InsertionOffset(endIdx, setupMatch)
       IN  IF setupMatch.index = -1
           THEN /\ rpc' = "emit"
                /\ UNCHANGED <<magicString, setupStartIdx, raised, stage>>
           ELSE IF MSCanSplit(magicString, offset)
           THEN /\ magicString' = MSAppendLeft(magicString, offset, Template)
                /\ setupStartIdx' = offset
                /\ rpc' = "emit"
                /\ UNCHANGED <<raised, stage>>
           ELSE /\ raised' = TRUE
                /\ rpc' = "idle"
                /\ stage' = "done"
                /\ UNCHANGED <<magicString, setupStartIdx>>
    /\ UNCHANGED <<startIdx, endIdx, braceCount, funcEndIdx, id, input, code,
                   emitted, received, descriptor, sessionVars, hostVars, cvVars>>

\* lines 164-167
EmitReplaceable ==
    /\ rpc = "emit"
    /\ code' = MSToString(magicString)
    /\ emitted' = emitted \cup {"replaceable"}
    /\ stage' = After("replaceable")
    /\ rpc' = "idle"
    /\ UNCHANGED <<magicString, startIdx, endIdx, braceCount, funcEndIdx,
                   setupStartIdx, raised, id, input, received, descriptor,
                   sessionVars, hostVars, cvVars>>

-----------------------------------------------------------------------------
(* Inputs: module ids and module texts.                                    *)

ReplaceableId == <<"/","a","/","n","a","i","v","e","-","u","i","/","e","s","/","_","i","n","t","e","r","n",
      "a","l","/","i","c","o","n","s","/","r","e","p","l","a","c","e","a","b","l","e",".","m",
      "j","s">>

CheckboxId == <<"/","a","/","n","a","i","v","e","-","u","i","/","e","s","/","c","h","e","c","k","b","o",
      "x","/","s","r","c","/","C","h","e","c","k","b","o","x",".","m","j","s">>

BackTopId == <<"/","a","/","n","a","i","v","e","-","u","i","/","e","s","/","b","a","c","k","-","t","o",
      "p","/","s","r","c","/","B","a","c","k","T","o","p",".","m","j","s">>

RateId == <<"/","a","/","n","a","i","v","e","-","u","i","/","e","s","/","r","a","t","e","/","s","r",
      "c","/","R","a","t","e",".","m","j","s">>

ResultId == <<"/","a","/","n","a","i","v","e","-","u","i","/","e","s","/","r","e","s","u","l","t","/",
      "s","r","c","/","R","e","s","u","l","t",".","m","j","s">>

\* the pre-bundled dependency file of a dev session
DevDepsId == <<"/","a","/",".","v","i","t","e","/","d","e","p","s","/","n","a","i","v","e","-","u","i",
      ".","j","s","?","v","=","1">>

AppId == <<"/","a","/","s","r","c","/","A","p","p",".","v","u","e">>

\* Rate.mjs of a project kept in a directory named checkbox-app
RateInCheckboxAppId == <<"/","c","h","e","c","k","b","o","x","-","a","p","p","/","n","a","i","v","e","-","u","i",
      "/","e","s","/","r","a","t","e","/","s","r","c","/","R","a","t","e",".","m","j","s">>

\* a path that holds both the icon-internals directory and a component file
NestedPackageId == <<"/","a","/","n","a","i","v","e","-","u","i","/","e","s","/","_","i","n","t","e","r","n",
      "a","l","/","i","c","o","n","s","/","r","e","p","l","a","c","e","a","b","l","e","/","n",
      "a","i","v","e","-","u","i","/","e","s","/","r","a","t","e","/","s","r","c","/","R","a",
      "t","e",".","m","j","s">>

FileIds ==
    { ReplaceableId, CheckboxId, BackTopId, RateId, ResultId, DevDepsId, AppId,
      RateInCheckboxAppId, NestedPackageId }

\* pieces of module text
SigFrag == <<"f","u","n","c","t","i","o","n"," ","r","e","p","l","a","c","e","a","b","l","e","(","n",
      "a","m","e",","," ","i","c","o","n",")"," ","{">>

\* matched by the regular expression, not by the string pattern
RegexOnlySigFrag == <<"f","u","n","c","t","i","o","n"," ","r","e","p","l","a","c","e","a","b","l","e"," ","(",
      "n",",","\t","i","c","o","n",")","\n","{">>

\* matched by the string pattern, not by the regular expression
LiteralOnlyFrag == <<"f","u","n","c","t","i","o","n"," ","r","e","p","l","a","c","e","a","b","l","e","(","n",
      "a","m","e",","," ","i","c","o","n",")",";">>

SetupFrag == <<"s","e","t","u","p","(",")"," ","{">>

\* a block opened and closed
NestedFrag == <<"{", "}">>

CloseFrag == <<"}">>

Frags == {SigFrag, RegexOnlySigFrag, LiteralOnlyFrag, SetupFrag, NestedFrag, CloseFrag}

Texts == {Flatten(fs) : fs \in UNION {[1..n -> Frags] : n \in 0..MaxFrags}}

SessionTexts ==
    { Flatten(<<SigFrag, SetupFrag, CloseFrag, CloseFrag>>),
      Flatten(<<RegexOnlySigFrag, SetupFrag>>),
      Flatten(<<NestedFrag, CloseFrag>>) }

-----------------------------------------------------------------------------
(* Specifications.                                                         *)

NoFile ==
    /\ stage = "idle"
    /\ id = <<>>
    /\ input = <<>>
    /\ code = <<>>
    /\ emitted = {}
    /\ received = [n \in {} |-> <<>>]
    /\ descriptor = "none"

NoLocalsYet ==
    /\ rpc = "idle"
    /\ magicString = NewMagicString(<<>>)
    /\ startIdx = -1
    /\ endIdx = 0
    /\ braceCount = 0
    /\ funcEndIdx = 0
    /\ setupStartIdx = -1
    /\ raised = FALSE

NoCall ==
    /\ cvpc = "none"
    /\ cvVersion = <<0>>
    /\ cvTarget = <<0>>
    /\ cvResult = FALSE

\* the plugin array has just been built (lines 61-65)
Init ==
    /\ pc = "created"
    /\ pkg \in Packages
    /\ isBuild = FALSE
    /\ skipFix = FALSE
    /\ fixReplaceableFilter = <<>>
    /\ fixExportDefaultFilter = <<>>
    /\ resolved = Null
    /\ loaded = Null
    /\ NoFile
    /\ NoLocalsYet
    /\ NoCall

Next ==
    \/ \E command \in Commands : Config(command)
    \/ ConfigResolved
    \/ \E i \in HookIds : ResolveId(i)
    \/ \E i \in HookIds : Load(i)
    \/ \E i \in FileIds, text \in SessionTexts : BeginFile(i, text)
    \/ PreTransform
    \/ ReplaceableTransform
    \/ ReplaceLiteral
    \/ MatchSignature
    \/ ScanStep
    \/ InsertAfterSetup
    \/ EmitReplaceable
    \/ ExportDefaultTransform
    \/ NextFile

Spec == Init /\ [][Next]_vars

\* compareVersion alone, on every pair of bounded tuples and the named pairs
InitVersion ==
    /\ pc = "created"
    /\ pkg = Manifest(FIXED_VERSION)
    /\ isBuild = FALSE
    /\ skipFix = FALSE
    /\ fixReplaceableFilter = <<>>
    /\ fixExportDefaultFilter = <<>>
    /\ resolved = Null
    /\ loaded = Null
    /\ NoFile
    /\ NoLocalsYet
    /\ cvpc = "call"
    /\ \E pair \in (Tuples \X Tuples) \cup NamedPairs :
           cvVersion = pair[1] /\ cvTarget = pair[2]
    /\ cvResult = FALSE

NextVersion == CompareStep

SpecVersion == InitVersion /\ [][NextVersion]_vars

\* a build session whose version could not be resolved, with a module of the
\* icon-internals directory entering the pipeline, for every bounded text
InitReplaceable ==
    /\ pc = "ready"
    /\ pkg = [found |-> FALSE, parses |-> FALSE, version |-> <<>>]
    /\ isBuild = TRUE
    /\ skipFix = FALSE
    /\ fixReplaceableFilter = createFilter(<<ReplaceablePattern>>)
    /\ fixExportDefaultFilter = createFilter(BuildExportDefaultPatterns)
    /\ resolved = Null
    /\ loaded = Null
    /\ stage = PipelineOrder[1].name
    /\ id = ReplaceableId
    /\ input \in Texts
    /\ code = input
    /\ emitted = {}
    /\ received = [n \in {} |-> <<>>]
    /\ descriptor = "none"
    /\ NoLocalsYet
    /\ NoCall

NextReplaceable ==
    \/ PreTransform
    \/ ReplaceableTransform
    \/ ReplaceLiteral
    \/ MatchSignature
    \/ ScanStep
    \/ InsertAfterSetup
    \/ EmitReplaceable

SpecReplaceable == InitReplaceable /\ [][NextReplaceable]_vars

-----------------------------------------------------------------------------
(* Properties of the version gate.                                         *)

PaddedAt(t, k) == IF k <= Len(t) THEN t[k] ELSE 0

\* a >= b in the lexicographic order of the tuples padded with zeros
PaddedLexGE(a, b) ==
    LET n == Max(Len(a), Len(b))
    IN  \/ \A k \in 1..n : PaddedAt(a, k) = PaddedAt(b, k)
        \/ \E k \in 1..n : /\ PaddedAt(a, k) > PaddedAt(b, k)
                           /\ \A j \in 1..(k - 1) : PaddedAt(a, j) = PaddedAt(b, j)

\* C1: compareVersion(v, t) is true exactly when the tuple of v, padded with
\* zeros to the longer length, is lexicographically >= the padded tuple of t;
\* the four pairs the specification names give true, true, false, true.
C1_CompareVersionIsPaddedLexGE ==
    cvpc = "returned" =>
        /\ cvResult <=> PaddedLexGE(cvVersion, cvTarget)
        /\ cvVersion = <<2, 40, 4>> /\ cvTarget = <<2, 40, 4>> => cvResult = TRUE
        /\ cvVersion = <<2, 41, 0>> /\ cvTarget = <<2, 40, 4>> => cvResult = TRUE
        /\ cvVersion = <<2, 40, 3>> /\ cvTarget = <<2, 40, 4>> => cvResult = FALSE
        /\ cvVersion = <<2, 40>> /\ cvTarget = <<2, 40, 0>> => cvResult = TRUE

C1_Witness ==
    /\ cvpc = "returned"
    /\ cvVersion = <<2, 40>>
    /\ cvTarget = <<2, 40, 0>>
    /\ cvResult = TRUE

\* C2: once the session is configured, and after any resolveId, load and
\* transform invocations, the skip flag is true exactly when the version was
\* resolved and compareVersion(version, "2.40.4") is true; it is false when
\* resolution failed.
C2_SkipFlagIsVersionGate ==
    pc = "ready" =>
        /\ skipFix <=> (pkg.found /\ pkg.parses
                          /\ compareVersion(pkg.version, FIXED_VERSION))
        /\ ~(pkg.found /\ pkg.parses) => ~skipFix

C2_Witness ==
    /\ pc = "ready"
    /\ ~pkg.found
    /\ ~skipFix
    /\ stage = "done"
    /\ emitted # {}
    /\ ~resolved.isNull
    /\ ~loaded.isNull

-----------------------------------------------------------------------------
(* Properties of the pipeline.                                             *)

\* the filters a plugin's transform consults, by the plugin's name
ConsultedFilterMatches(name) ==
    IF name = "pre"
    THEN FilterMatch(fixReplaceableFilter, id) \/ FilterMatch(fixExportDefaultFilter, id)
    ELSE IF name = "replaceable" THEN FilterMatch(fixReplaceableFilter, id)
    ELSE FilterMatch(fixExportDefaultFilter, id)

Invoked == DOMAIN received

\* C3: a stage invoked while the skip flag is true, or on an id none of its
\* filters matches, emits nothing and the next stage is handed the text it
\* was handed; with version 2.41.0 the text that leaves the pipeline is the
\* text that entered it.
C3_StagesDeclineWhenSkippedOrUnmatched ==
    /\ \A n \in Invoked :
           (skipFix \/ ~ConsultedFilterMatches(n)) =>
               /\ n \notin emitted
               /\ stage = After(n) => code = received[n]
               /\ After(n) \in Invoked => received[After(n)] = received[n]
    /\ skipFix /\ stage = "done" => code = input /\ emitted = {}
    /\ pc = "ready" /\ pkg = Manifest(<<"2",".","4","1",".","0">>) => skipFix

C3_Witness ==
    /\ pkg = Manifest(<<"2",".","4","1",".","0">>)
    /\ stage = "done"
    /\ ConsultedFilterMatches("replaceable")
    /\ ConsultedFilterMatches("exportDefault")
    /\ SignatureExec(input).index # -1
    /\ code = input

BodyRewriters == {"replaceable", "exportDefault"}

\* C4: the import-prepending stage has run to completion on a file before a
\* body-rewriting stage is invoked on it, and a body-rewriting stage that
\* applies was preceded by a prepend stage that applied, so the text it was
\* handed begins with the import of fixNaiveuiIconCloneVnode.
C4_PrependBeforeBodyRewriting ==
    \A n \in BodyRewriters :
        /\ n \in Invoked => "pre" \in Invoked /\ stage # "pre"
        /\ (n \in Invoked /\ ~skipFix /\ ConsultedFilterMatches(n)) =>
               /\ "pre" \in emitted
               /\ MatchLitAt(received[n], 0, ImportLine)
        /\ n \in emitted => ~skipFix /\ ConsultedFilterMatches(n)

C4_Witness ==
    /\ "exportDefault" \in emitted
    /\ isBuild
    /\ received["exportDefault"] = ImportLine \o input

PackageDir == <<"/","n","a","i","v","e","-","u","i","/","e","s","/">>

Occurrences(s, lit) == Cardinality({j \in 0..Len(s) : MatchLitAt(s, j, lit)})

\* C5 as stated: the replaceable stage and the export-default stage never
\* both apply to one file identity, in either build mode.
C5_NeverBothCategories == ~(BodyRewriters \subseteq emitted)

\* C5 as amended: in build mode, on an identity in which the directory
\* /naive-ui/es/ occurs at most once, the two stages never both apply; in
\* dev mode the two filters are one predicate, so a file either there is
\* rewritten by both stages or by neither.
C5_AtMostOneCategoryInBuild ==
    /\ (isBuild /\ Occurrences(id, PackageDir) <= 1) =>
           ~(BodyRewriters \subseteq emitted)
    /\ (pc = "ready" /\ isBuild) =>
           \A i \in FileIds :
               Occurrences(i, PackageDir) <= 1 =>
                   ~(FilterMatch(fixReplaceableFilter, i)
                       /\ FilterMatch(fixExportDefaultFilter, i))
    /\ (pc = "ready" /\ ~isBuild) =>
           /\ fixReplaceableFilter = fixExportDefaultFilter
           /\ stage = "done" => ("replaceable" \in emitted <=> "exportDefault" \in emitted)

C5_Witness ==
    /\ isBuild
    /\ stage = "done"
    /\ id = ReplaceableId
    /\ emitted = {"pre", "replaceable"}

\* the components whose file pattern an identity matches
MatchedComponents(i) ==
    (IF Includes(i, CheckboxPattern) THEN {"checkbox"} ELSE {})
        \cup (IF Includes(i, BackTopPattern) THEN {"backTop"} ELSE {})
        \cup (IF Includes(i, RatePattern) THEN {"rate"} ELSE {})
        \cup (IF Includes(i, ResultPattern) THEN {"result"} ELSE {})

\* C10: in build mode, the recipe chosen for an identity that matches the
\* export-default filter is the recipe of a component whose file pattern the
\* identity matched, whatever else the path holds.
C10_RecipeOfMatchedComponent ==
    (isBuild /\ "exportDefault" \in emitted) => descriptor \in MatchedComponents(id)

-----------------------------------------------------------------------------
(* Properties of the replaceable stage.                                    *)

\* the replaceable transform has returned {code, map}: `code` is its output
\* and received["replaceable"] the text it was invoked with
ReplaceableReturned ==
    /\ "replaceable" \in emitted
    /\ rpc = "idle"
    /\ stage = After("replaceable")

\* nesting depth just before index `to`, for a scan entered at `from` inside
\* one open brace
DepthBefore(t, from, to) ==
    1 + Cardinality({k \in from..(to - 1) : At(t, k) = "{"})
      - Cardinality({k \in from..(to - 1) : At(t, k) = "}"})

\* the index of the first closing brace, at or after `from`, that brings the
\* depth to zero; -1 when there is none
ClosingBrace(t, from) ==
    LeastOr({j \in from..(Len(t) - 1) :
                 At(t, j) = "}" /\ DepthBefore(t, from, j + 1) = 0})

\* where the function body ends: after its closing brace, or with the text
BodyEnd(t, from) ==
    IF ClosingBrace(t, from) = -1 THEN Len(t) ELSE ClosingBrace(t, from) + 1

\* the text with the first occurrence of the signature literal renamed
RenameFirst(t) ==
    LET at == IndexOf(t, SignatureLiteral)
    IN  IF at = -1 THEN t
        ELSE Slice(t, 0, at) \o RenamedLiteral
                 \o Slice(t, at + Len(SignatureLiteral), Len(t))

SignatureFound(t) == SignatureExec(t).index # -1

SignatureEnd(t) == SignatureExec(t).index + SignatureExec(t).length

\* the secondary anchor, searched between the signature and the body's end
SetupInBody(t) == SetupExec(Slice(t, SignatureEnd(t), BodyEnd(t, SignatureEnd(t))))

BothAnchorsFound(t) == SignatureFound(t) /\ SetupInBody(t).index # -1

\* C6: when the signature anchor is missing, or `setup() {` is missing from
\* the slice between the signature and the end of the function body, nothing
\* is inserted and the output is the input with only the parameter rename
\* applied, the input itself when the literal does not occur; no run of the
\* stage raises an error.
C6_MissingAnchorLeavesOnlyRename ==
    /\ ~raised
    /\ ReplaceableReturned =>
           LET in == received["replaceable"]
           IN  ~BothAnchorsFound(in) =>
                   /\ setupStartIdx = -1
                   /\ code = RenameFirst(in)
                   /\ IndexOf(in, SignatureLiteral) = -1 => code = in

\* the signature is there, `setup() {` occurs only after the function's
\* closing brace, and the literal was renamed
C6_Witness ==
    /\ ReplaceableReturned
    /\ SignatureFound(received["replaceable"])
    /\ ~BothAnchorsFound(received["replaceable"])
    /\ SetupExec(received["replaceable"]).index # -1
    /\ IndexOf(received["replaceable"], SignatureLiteral) # -1
    /\ code # received["replaceable"]

\* the while loop has been left and the text is still the stage's input
ScanLeft ==
    /\ startIdx # -1
    /\ \/ rpc = "emit"
       \/ rpc = "scan" /\ ~(braceCount > 0 /\ funcEndIdx < Len(code))

\* C7 as stated: the scan returns the index immediately after the closing
\* brace that brings the depth to zero, or a "not found" signal (-1 here)
\* when the input is exhausted first.
C7_ScanReturnsCloseOrNotFound ==
    ScanLeft =>
        funcEndIdx = (IF ClosingBrace(code, endIdx) = -1 THEN -1
                      ELSE ClosingBrace(code, endIdx) + 1)

\* C7 as amended: the scan ends at the index immediately after the closing
\* brace that brings the depth to zero, with the count at zero; when the
\* input is exhausted first it ends at the length of the text with the count
\* still positive, and the body is taken to run to the end of the text.
C7_ScanEndsAfterCloseOrAtEndOfText ==
    ScanLeft =>
        IF ClosingBrace(code, endIdx) = -1
        THEN funcEndIdx = Len(code) /\ braceCount > 0
        ELSE funcEndIdx = ClosingBrace(code, endIdx) + 1 /\ braceCount = 0

\* a nested pair was skipped on the way to the closing brace, and text follows
C7_Witness ==
    /\ ScanLeft
    /\ braceCount = 0
    /\ funcEndIdx < Len(code)
    /\ \E k \in endIdx..(funcEndIdx - 1) : At(code, k) = "{"

\* what renaming the literal found at index `lit` (-1: not found) adds to the
\* offset of the original position p
RenameShift(lit, p) ==
    IF lit # -1 /\ lit < p THEN Len(RenamedLiteral) - Len(SignatureLiteral) ELSE 0

InRenamedLiteral(lit, p) == lit # -1 /\ lit <= p /\ p < lit + Len(SignatureLiteral)

\* C8: when both anchors are found the template is inserted at the original
\* offset (end of the signature match + index of the secondary match + its
\* length), immediately after the first `setup() {` of the body; the output
\* is the renamed input with the template spliced in there, so no original
\* character is lost or moved and the positions after the insertion point
\* shift by the length of the template.
C8_TemplateSplicedAfterSetup ==
    ReplaceableReturned =>
        LET in == received["replaceable"]
            sig == SignatureExec(in)
            sigEnd == sig.index + sig.length
            bodyEnd == BodyEnd(in, sigEnd)
            setup == SetupExec(Slice(in, sigEnd, bodyEnd))
            off == sigEnd + setup.index + setup.length
            first == LeastOr({q \in sigEnd..(bodyEnd - 1) :
                                  SetupEndAt(in, q) # -1 /\ SetupEndAt(in, q) <= bodyEnd})
            lit == IndexOf(in, SignatureLiteral)
            renamed == RenameFirst(in)
            at == off + RenameShift(lit, off)
        IN  (sig.index # -1 /\ setup.index # -1) =>
                /\ setupStartIdx = off
                /\ first # -1 /\ SetupEndAt(in, first) = off
                /\ code = Slice(renamed, 0, at) \o Template \o Slice(renamed, at, Len(renamed))
                /\ Slice(code, at, at + Len(Template)) = Template
                /\ Len(code) = Len(renamed) + Len(Template)
                /\ \A p \in 0..(Len(in) - 1) :
                       ~InRenamedLiteral(lit, p) =>
                           At(code, p + RenameShift(lit, p)
                                      + (IF p >= off THEN Len(Template) ELSE 0)) = At(in, p)

\* both anchors found in a balanced function, the literal renamed in place
C8_Witness ==
    /\ ReplaceableReturned
    /\ BothAnchorsFound(received["replaceable"])
    /\ ClosingBrace(received["replaceable"], endIdx) # -1
    /\ IndexOf(received["replaceable"], SignatureLiteral) = startIdx

\* C9: whenever the binding is inserted into a function body, the signature
\* of that function reads `function replaceable(name, _icon_)` in the
\* output: the rename hit the occurrence the insertion was made in.
C9_InsertionImpliesRename ==
    (ReplaceableReturned /\ setupStartIdx # -1) =>
        MatchLitAt(code, startIdx, RenamedLiteral)

=============================================================================
